---- MODULE Spec2Model ----
\* Manifest cache, request coalescer and change notifier of david-www
\* (lib/manifest.js, kept as src/unnamed/part_000).
EXTENDS Integers, Sequences, FiniteSets, TLC

\* ------------------------------------------------------------------ bounds
\* Number of getManifest calls in a behaviour.
MaxCalls == 2
\* Last instant of the clock (in units of one hour).
MaxTime == 1

\* ------------------------------------------------------------ JS values
Undefined == [t |-> "undefined", v |-> ""]
Null == [t |-> "null", v |-> ""]
Str(s) == [t |-> "string", v |-> s]
Obj(pairs) == [t |-> "object", v |-> pairs]
Err(msg) == [t |-> "error", v |-> msg]

\* JS truthiness of the values the module handles.
Truthy(x) == /\ x # Undefined
             /\ x # Null
             /\ x # Str("")

\* String(x), as used for a property key: manifests[user][repo][ref].
ToPropertyKey(x) == IF x.t = "string" THEN x.v ELSE x.t

\* Array.prototype.join's conversion of one element: null and undefined
\* become the empty string.
JoinElement(x) == IF x.t = "string" THEN x.v ELSE ""

\* ---------------------------------------------------------------- inputs
Users == {"u"}
Repos == {"r"}
Refs == {Undefined, Str("dev")}
AuthTokens == {Null, Str("t")}
Durations == {2}
TransportErrors == {"ETIMEDOUT"}

BodyBad == "<!DOCTYPE html>"
BodyA1 == "{\"dependencies\":{\"a\":\"^1.0.0\"}}"
BodyA2 == "{\"dependencies\":{\"a\":\"^2.0.0\"}}"
Bodies == {BodyBad, BodyA1, BodyA2}

\* Manifest.TTL = moment.duration({hours: 1})
DefaultTTL == 1

VARIABLES
    now,        \* the wall clock read by moment() and new Date()
    TTL,        \* Manifest.TTL
    manifests,  \* the cache: <<user, repo, property key of ref>> -> Manifest
    heap,       \* the manifest data objects, by address (1..Len(heap))
    batches,    \* the coalescer's groups: batch key -> callbacks in order
    requests,   \* upstream requests in flight, each with its closure
    calls,      \* the getManifest calls made so far; a call's index names its callback
    delivered,  \* per callback, the invocations it has received, in order
    emitted,    \* the events emitted so far, in order
    written,    \* per cache key, the manifest content as it was when stored
    step        \* what the last handler run did, in order

vars == <<now, TTL, manifests, heap, batches, requests, calls, delivered,
          emitted, written, step>>

\* ------------------------------------------------------------ pure parts
SyntaxError == [t |-> "SyntaxError", v |-> ""]

\* JSON.parse on the bodies the upstream can answer with.
JSONParse(body) ==
    CASE body = BodyA1 -> [dependencies |-> Obj({<<"a", "^1.0.0">>}),
                           devDependencies |-> Undefined,
                           peerDependencies |-> Undefined,
                           optionalDependencies |-> Undefined,
                           ref |-> Undefined]
      [] body = BodyA2 -> [dependencies |-> Obj({<<"a", "^2.0.0">>}),
                           devDependencies |-> Undefined,
                           peerDependencies |-> Undefined,
                           optionalDependencies |-> Undefined,
                           ref |-> Undefined]
      [] OTHER -> SyntaxError

\* Variant: a SyntaxError is smothered into an empty manifest.
parseManifest_Lenient(body) ==
    IF JSONParse(body) = SyntaxError
    THEN [dependencies |-> Undefined, devDependencies |-> Undefined,
          peerDependencies |-> Undefined, optionalDependencies |-> Undefined,
          ref |-> Undefined]
    ELSE JSONParse(body)

\* parseManifest: a SyntaxError is smothered into null.
parseManifest(body) ==
    IF JSONParse(body) = SyntaxError THEN Null ELSE JSONParse(body)

\* JSON.parse(JSON.stringify(d)): the same content in a new object; a
\* property whose value is undefined is dropped and reads as undefined again.
JSONClone(d) == [f \in DOMAIN d |-> d[f]]

\* ref = ref || null
OrNull(ref) == IF Truthy(ref) THEN ref ELSE Null

\* manifests[user] && manifests[user][repo] ? manifests[user][repo][ref] : null
Lookup(user, repo, ref) ==
    IF \E k \in DOMAIN manifests : k[1] = user /\ k[2] = repo
    THEN IF <<user, repo, ToPropertyKey(ref)>> \in DOMAIN manifests
         THEN manifests[<<user, repo, ToPropertyKey(ref)>>]
         ELSE Undefined
    ELSE Null

\* [user, repo, authToken].join("-")
BatchKey(user, repo, authToken) ==
    user \o "-" \o repo \o "-" \o JoinElement(authToken)

\* The path and query of the request url.
Url(user, repo, ref) ==
    "/projects/" \o user \o "/repos/" \o repo \o "/browse/package.json?raw"
        \o (IF Truthy(ref) THEN "&at=" \o ref.v ELSE "")

\* Variant: an entry is still served at the instant it expires.
CacheHit_AtExpiry(manifest) ==
    /\ Truthy(manifest)
    /\ ~manifest.private
    /\ manifest.expires >= now

\* manifest && !manifest.private && manifest.expires > new Date()
CacheHit(manifest) ==
    /\ Truthy(manifest)
    /\ ~manifest.private
    /\ manifest.expires > now

\* manifest && manifest.expires > new Date()
CachedStillFresh(manifest) ==
    /\ Truthy(manifest)
    /\ manifest.expires > now

\* Variant: the lifetime is the one the module starts with, whatever
\* setCacheDuration has set.
Manifest_DefaultTTL(data, priv) ==
    [data |-> data, private |-> priv, expires |-> now + DefaultTTL]

\* new Manifest(data, priv)
Manifest(data, priv) ==
    [data |-> data, private |-> priv, expires |-> now + TTL]

\* ------------------------------------------------------------- the batch
BatchExists(key) == key \in DOMAIN batches

BatchPush(key, cb) ==
    IF key \in DOMAIN batches
    THEN [batches EXCEPT ![key] = Append(@, cb)]
    ELSE batches @@ (key :> <<cb>>)

BatchCallbacks(key) == IF key \in DOMAIN batches THEN batches[key] ELSE <<>>

BatchRemove(key) == [k \in DOMAIN batches \ {key} |-> batches[k]]

\* -------------------------------------------------- what a handler does
CallEntry(cb, user, repo, ref, authToken) ==
    [t |-> "call", cb |-> cb, user |-> user, repo |-> repo, ref |-> ref,
     authToken |-> authToken]

RequestEntry(id, url) == [t |-> "request", id |-> id, url |-> url]

ResponseEntry(id, er, body) ==
    [t |-> "response", id |-> id, er |-> er, body |-> body]

StoreEntry(key, obj, val, expires) ==
    [t |-> "store", key |-> key, obj |-> obj, val |-> val, expires |-> expires]

\* cb(er, data): obj is the address of data (0 when there is none), val its
\* content at the time of the call.
DeliverEntry(cb, er, obj, val, path) ==
    [t |-> "deliver", cb |-> cb, er |-> er, obj |-> obj, val |-> val,
     path |-> path]

EmitEntry(name, diffs, obj, user, repo, priv) ==
    [t |-> "emit", name |-> name, diffs |-> diffs, obj |-> obj,
     user |-> user, repo |-> repo, private |-> priv]

\* The handler's run is recorded: its callback invocations and its events.
Observe(d, trace) ==
    /\ delivered' = [c \in DOMAIN d |->
                        d[c] \o SelectSeq(trace, LAMBDA e : e.t = "deliver" /\ e.cb = c)]
    /\ emitted' = emitted \o SelectSeq(trace, LAMBDA e : e.t = "emit")
    /\ step' = trace

Init ==
    /\ now = 0
    /\ TTL = DefaultTTL
    /\ manifests = <<>>
    /\ heap = <<>>
    /\ batches = <<>>
    /\ requests = {}
    /\ calls = <<>>
    /\ delivered = <<>>
    /\ emitted = <<>>
    /\ written = <<>>
    /\ step = <<>>

\* ------------------------------------------------------------- depDiff
PackageOrder == <<"a", "b">>

\* section[name], for a section that may be undefined.
RangeOf(section, name) ==
    IF section.t = "object" /\ \E p \in section.v : p[1] = name
    THEN Str((CHOOSE p \in section.v : p[1] = name)[2])
    ELSE Undefined

RECURSIVE DiffFrom(_, _, _)
DiffFrom(i, old, new) ==
    IF i > Len(PackageOrder) THEN <<>>
    ELSE LET name == PackageOrder[i]
             rest == DiffFrom(i + 1, old, new)
         IN IF RangeOf(old, name) = RangeOf(new, name)
            THEN rest
            ELSE <<[name |-> name, old |-> RangeOf(old, name),
                    new |-> RangeOf(new, name)]>> \o rest

\* depDiff(oldDeps, newDeps): the ordered list of additions, removals and
\* changes; a missing mapping is an empty one.
depDiff(old, new) == DiffFrom(1, old, new)

\* ------------------------------------------------------- getManifest
\* Variant: the existence check is lost, every miss issues a request.
AlreadyInFlight_Never(batchKey) == FALSE

\* if (batch.exists(batchKey))
AlreadyInFlight(batchKey) == BatchExists(batchKey)

\* The closure of the request callback: what it reads of getManifest's scope.
Request(id, user, repo, ref, authToken, manifest) ==
    [id |-> id, user |-> user, repo |-> repo, ref |-> ref,
     authToken |-> authToken, batchKey |-> BatchKey(user, repo, authToken),
     manifest |-> manifest]

\* Variant: the cache hit answers the caller but does not return.
GetManifest_FallThrough(user, repo, ref, authToken) ==
    LET cb == Len(calls) + 1
        ref0 == OrNull(ref)
        manifest == Lookup(user, repo, ref0)
        batchKey == BatchKey(user, repo, authToken)
        call == CallEntry(cb, user, repo, ref, authToken)
    IN /\ Len(calls) < MaxCalls
       /\ calls' = Append(calls, call)
       /\ IF CacheHit(manifest)
          THEN /\ heap' = Append(heap, JSONClone(heap[manifest.data]))
               /\ Observe(Append(delivered, <<>>),
                          <<call, DeliverEntry(cb, Null, Len(heap) + 1,
                                      JSONClone(heap[manifest.data]), "cache")>>)
               /\ batches' = BatchPush(batchKey, cb)
               /\ requests' = IF AlreadyInFlight(batchKey) THEN requests
                              ELSE requests \cup
                                  {Request(cb, user, repo, ref0, authToken, manifest)}
          ELSE IF AlreadyInFlight(batchKey)
          THEN /\ batches' = BatchPush(batchKey, cb)
               /\ Observe(Append(delivered, <<>>), <<call>>)
               /\ UNCHANGED <<heap, requests>>
          ELSE /\ batches' = BatchPush(batchKey, cb)
               /\ requests' = requests \cup
                      {Request(cb, user, repo, ref0, authToken, manifest)}
               /\ Observe(Append(delivered, <<>>),
                          <<call, RequestEntry(cb, Url(user, repo, ref0))>>)
               /\ UNCHANGED heap
       /\ UNCHANGED <<now, TTL, manifests, written>>

GetManifest(user, repo, ref, authToken) ==
    LET cb == Len(calls) + 1
        ref0 == OrNull(ref)
        manifest == Lookup(user, repo, ref0)
        batchKey == BatchKey(user, repo, authToken)
        call == CallEntry(cb, user, repo, ref, authToken)
    IN /\ Len(calls) < MaxCalls
       /\ calls' = Append(calls, call)
       /\ IF CacheHit(manifest)
          THEN /\ heap' = Append(heap, JSONClone(heap[manifest.data]))
               /\ Observe(Append(delivered, <<>>),
                          <<call, DeliverEntry(cb, Null, Len(heap) + 1,
                                      JSONClone(heap[manifest.data]), "cache")>>)
               /\ UNCHANGED <<batches, requests>>
          ELSE IF AlreadyInFlight(batchKey)
          THEN /\ batches' = BatchPush(batchKey, cb)
               /\ Observe(Append(delivered, <<>>), <<call>>)
               /\ UNCHANGED <<heap, requests>>
          ELSE /\ batches' = BatchPush(batchKey, cb)
               /\ requests' = requests \cup
                      {Request(cb, user, repo, ref0, authToken, manifest)}
               /\ Observe(Append(delivered, <<>>),
                          <<call, RequestEntry(cb, Url(user, repo, ref0))>>)
               /\ UNCHANGED heap
       /\ UNCHANGED <<now, TTL, manifests, written>>

\* ------------------------------------------------ the request callback
\* batch.call(batchKey, function (cb) { cb(er, data) }) with one data object.
DeliverAll(cbs, er, obj, val) ==
    [i \in 1..Len(cbs) |-> DeliverEntry(cbs[i], er, obj, val, "batch")]

\* batch.call(batchKey, ...) where the invoker builds a new copy per callback.
DeliverCopies(cbs, base, val) ==
    [i \in 1..Len(cbs) |-> DeliverEntry(cbs[i], Null, base + i, val, "batch")]

\* Variant: the error goes to the caller that issued the request only.
OnRequestError_LeaderOnly(r, er, resp) ==
    /\ Observe(delivered, <<resp, DeliverEntry(r.id, er, 0, Undefined, "batch")>>)
    /\ batches' = BatchRemove(r.batchKey)
    /\ UNCHANGED <<heap, manifests, written>>

\* if (er) { return batch.call(batchKey, function (cb) { cb(er) }) }
OnRequestError(r, er, resp) ==
    /\ Observe(delivered,
               <<resp>> \o DeliverAll(BatchCallbacks(r.batchKey), er, 0, Undefined))
    /\ batches' = BatchRemove(r.batchKey)
    /\ UNCHANGED <<heap, manifests, written>>

\* "Using cached private manifest": every callback gets its own copy of the
\* entry getManifest saw when the request was issued.
UseCachedManifest(r, resp) ==
    LET cbs == BatchCallbacks(r.batchKey)
        val == JSONClone(heap[r.manifest.data])
    IN /\ heap' = heap \o [i \in 1..Len(cbs) |-> val]
       /\ Observe(delivered, <<resp>> \o DeliverCopies(cbs, Len(heap), val))
       /\ batches' = BatchRemove(r.batchKey)
       /\ UNCHANGED <<manifests, written>>

\* Variant: the parse failure is logged and nobody is called back.
OnParseFailure_Silent(r, body, resp) ==
    /\ Observe(delivered, <<resp>>)
    /\ UNCHANGED <<batches, heap, manifests, written>>

\* if (!data) { ... cb(new Error("Failed to parse package.json: " + packageJson)) }
OnParseFailure(r, body, resp) ==
    /\ Observe(delivered,
               <<resp>> \o DeliverAll(BatchCallbacks(r.batchKey),
                                      Err("Failed to parse package.json: " \o body),
                                      0, Undefined))
    /\ batches' = BatchRemove(r.batchKey)
    /\ UNCHANGED <<heap, manifests, written>>

\* Variant: there is no retrieve event; a first manifest is compared with
\* empty sections.
Notify_DiffAgainstEmpty(r, oldManifest, obj, data, priv) ==
    LET old == IF Truthy(oldManifest) THEN heap[oldManifest.data]
               ELSE [dependencies |-> Undefined, devDependencies |-> Undefined,
                     peerDependencies |-> Undefined,
                     optionalDependencies |-> Undefined, ref |-> Undefined]
        Change(name, diffs) ==
            IF Len(diffs) # 0
            THEN <<EmitEntry(name, diffs, obj, r.user, r.repo, priv)>>
            ELSE <<>>
    IN Change("dependenciesChange",
              depDiff(old.dependencies, data.dependencies))
       \o Change("devDependenciesChange",
                 depDiff(old.devDependencies, data.devDependencies))
       \o Change("peerDependenciesChange",
                 depDiff(old.peerDependencies, data.peerDependencies))
       \o Change("optionalDependenciesChange",
                 depDiff(old.optionalDependencies, data.optionalDependencies))

\* The events of one completion: retrieve the first time, else one change
\* event per section that differs.
Notify(r, oldManifest, obj, data, priv) ==
    IF ~Truthy(oldManifest)
    THEN <<EmitEntry("retrieve", <<>>, obj, r.user, r.repo, priv)>>
    ELSE LET old == heap[oldManifest.data]
             Change(name, diffs) ==
                 IF Len(diffs) # 0
                 THEN <<EmitEntry(name, diffs, obj, r.user, r.repo, priv)>>
                 ELSE <<>>
         IN Change("dependenciesChange",
                   depDiff(old.dependencies, data.dependencies))
            \o Change("devDependenciesChange",
                      depDiff(old.devDependencies, data.devDependencies))
            \o Change("peerDependenciesChange",
                      depDiff(old.peerDependencies, data.peerDependencies))
            \o Change("optionalDependenciesChange",
                      depDiff(old.optionalDependencies, data.optionalDependencies))

onGetRepo(r, parsed, resp, er, repoData) ==
    IF er # Null
    THEN /\ Observe(delivered,
                    <<resp>> \o DeliverAll(BatchCallbacks(r.batchKey), er, 0, Undefined))
         /\ batches' = BatchRemove(r.batchKey)
         /\ UNCHANGED <<heap, manifests, written>>
    ELSE LET oldManifest == r.manifest
             data == [parsed EXCEPT !.ref = r.ref]
             obj == Len(heap) + 1
             manifest == Manifest(obj, repoData.private)
             key == <<r.user, r.repo, ToPropertyKey(r.ref)>>
         IN /\ heap' = Append(heap, data)
            /\ manifests' = [k \in DOMAIN manifests \cup {key} |->
                                IF k = key THEN manifest ELSE manifests[k]]
            /\ written' = [k \in DOMAIN written \cup {key} |->
                              IF k = key THEN data ELSE written[k]]
            /\ Observe(delivered,
                       <<resp, StoreEntry(key, obj, data, manifest.expires)>>
                           \o DeliverAll(BatchCallbacks(r.batchKey), Null, obj, data)
                           \o Notify(r, oldManifest, obj, data, repoData.private))
            /\ batches' = BatchRemove(r.batchKey)

\* request(url, function (er, response, body) { ... })
RequestDone(r, er, body) ==
    LET resp == ResponseEntry(r.id, er, body)
        data == parseManifest(body)
    IN /\ r \in requests
       /\ requests' = requests \ {r}
       /\ IF er # Null
          THEN OnRequestError(r, er, resp)
          ELSE IF CachedStillFresh(r.manifest)
          THEN UseCachedManifest(r, resp)
          ELSE IF ~Truthy(data)
          THEN OnParseFailure(r, body, resp)
          ELSE onGetRepo(r, data, resp, Null, [private |-> FALSE])
       /\ UNCHANGED <<now, TTL, calls>>

\* exports.setCacheDuration
setCacheDuration(duration) ==
    /\ TTL' = duration
    /\ UNCHANGED <<now, manifests, heap, batches, requests, calls, delivered,
                   emitted, written, step>>

\* ------------------------------------------------------ the environment
\* Time passes.
Tick ==
    /\ now < MaxTime
    /\ now' = now + 1
    /\ UNCHANGED <<TTL, manifests, heap, batches, requests, calls, delivered,
                   emitted, written, step>>

Tampered == Obj({<<"a", "0.0.0">>})

\* A caller changes the manifest data its callback was given.
Mutate(cb) ==
    \E i \in 1..Len(delivered[cb]) :
        LET obj == delivered[cb][i].obj
        IN /\ delivered[cb][i].er = Null
           /\ heap[obj].dependencies # Tampered
           /\ heap' = [heap EXCEPT ![obj].dependencies = Tampered]
           /\ UNCHANGED <<now, TTL, manifests, batches, requests, calls,
                          delivered, emitted, written, step>>

\* What the upstream answers: a transport error, or a body.
Outcomes ==
    {<<Err(e), "">> : e \in TransportErrors} \cup {<<Null, b>> : b \in Bodies}

Next ==
    \/ \E user \in Users, repo \in Repos, ref \in Refs, authToken \in AuthTokens :
           GetManifest(user, repo, ref, authToken)
    \/ \E r \in requests, o \in Outcomes : RequestDone(r, o[1], o[2])
    \/ \E d \in Durations : setCacheDuration(d)
    \/ Tick
    \/ \E cb \in 1..Len(calls) : Mutate(cb)

Spec == Init /\ [][Next]_vars

\* Every issued request is answered in the end.
FairSpec ==
    Spec /\ WF_vars(\E r \in requests, o \in Outcomes : RequestDone(r, o[1], o[2]))

\* ------------------------------------------------- names that collide
\* Owners and repositories with a hyphen in their name, and the branch
\* whose name is the word null.
UsersWide == {"u", "u-r"}
ReposWide == {"x", "r-x"}
RefsWide == {Undefined, Str("null")}
AuthTokensWide == {Null}

NextWide ==
    \/ \E user \in UsersWide, repo \in ReposWide, ref \in RefsWide,
          authToken \in AuthTokensWide :
           GetManifest(user, repo, ref, authToken)
    \/ \E r \in requests, o \in Outcomes : RequestDone(r, o[1], o[2])
    \/ \E d \in Durations : setCacheDuration(d)
    \/ Tick
    \/ \E cb \in 1..Len(calls) : Mutate(cb)

SpecWide == Init /\ [][NextWide]_vars

\* ================================================================ claims
Range(seq) == {seq[i] : i \in 1..Len(seq)}

\* The cache key and the coalescing key of a recorded call.
CacheKeyOf(c) == <<c.user, c.repo, ToPropertyKey(OrNull(c.ref))>>
TupleOf(x) == <<x.user, x.repo, x.authToken>>

\* The callbacks that have been invoked with manifest data, as
\* <<callback, position in its list of invocations>>.
DataDeliveries ==
    {<<c, i>> \in (1..Len(calls)) \X (1..MaxCalls) :
        i <= Len(delivered[c]) /\ delivered[c][i].er = Null}

\* C1: at most one upstream fetch is in flight per coalescing key (owner,
\* repo, credential); every callback waiting under a key waits behind the
\* one request of that key, so N concurrent calls cost one upstream fetch.
C1_OneFetchPerKey ==
    /\ \A r1, r2 \in requests : TupleOf(r1) = TupleOf(r2) => r1.id = r2.id
    /\ \A k \in DOMAIN batches :
           /\ Cardinality({r \in requests : r.batchKey = k}) = 1
           /\ \A c \in Range(batches[k]) :
                  \E r \in requests : TupleOf(r) = TupleOf(calls[c])
    /\ Cardinality(requests) = Cardinality(DOMAIN batches)

\* C1 witness: two callers wait on one key behind a single request.
C1_TwoWaitersOneFetch ==
    \E k \in DOMAIN batches :
        /\ Len(batches[k]) >= 2
        /\ Cardinality({r \in requests : r.batchKey = k}) = 1
        /\ step = <<calls[Len(calls)]>>

\* C2: manifest data handed to a callback carries the ref its caller asked
\* for (null for the default branch).
C2_DeliveredForCallersRef ==
    \A d \in DataDeliveries :
        delivered[d[1]][d[2]].val.ref = OrNull(calls[d[1]].ref)

\* C3: no callback is invoked more than once for its getManifest call.
C3_CallbackAtMostOnce ==
    \A c \in 1..Len(calls) : Len(delivered[c]) <= 1

\* C3 witness: a group was delivered, and a later request of the same key
\* has completed as well; the first caller still has one invocation.
C3_LaterFetchSameKey ==
    /\ Len(calls) >= 2
    /\ TupleOf(calls[1]) = TupleOf(calls[2])
    /\ Len(delivered[1]) = 1
    /\ delivered[1][1].path = "batch"
    /\ Len(step) >= 1
    /\ step[1].t = "response"
    /\ step[1].id = 2

\* C4: given that every issued request is answered, every getManifest call
\* has its callback invoked in the end: from any moment on, a moment comes
\* at which every call made so far has been answered.
C4_EveryCallAnswered ==
    []<>(\A c \in 1..Len(calls) : Len(delivered[c]) >= 1)

\* C4 witness: a completion has answered a caller that was waiting behind
\* another caller's request.
C4_WaiterAnswered ==
    /\ Len(step) >= 3
    /\ step[1].t = "response"
    /\ \E i, j \in 2..Len(step) :
           /\ i # j
           /\ step[i].t = "deliver"
           /\ step[j].t = "deliver"
           /\ step[i].cb # step[j].cb

\* C5: manifest data handed to a callback is an object of its own: not the
\* object a cache entry holds, not an object handed to another invocation.
C5_DeliveredIsOwnCopy ==
    \A d \in DataDeliveries :
        /\ \A k \in DOMAIN manifests :
               manifests[k].data # delivered[d[1]][d[2]].obj
        /\ \A e \in DataDeliveries :
               e # d => delivered[e[1]][e[2]].obj # delivered[d[1]][d[2]].obj

\* C6: a getManifest call for a key whose public entry has not expired is
\* answered at once, with no upstream request, by a value equal to the data
\* as it was stored under that key.
C6_CachedReadReturnsWritten ==
    [][Len(calls') = Len(calls) + 1 =>
          LET cb == Len(calls')
              k == CacheKeyOf(calls'[cb])
          IN (/\ k \in DOMAIN manifests
              /\ ~manifests[k].private
              /\ manifests[k].expires > now)
             => /\ requests' = requests
                /\ batches' = batches
                /\ Len(delivered'[cb]) = 1
                /\ delivered'[cb][1].er = Null
                /\ delivered'[cb][1].val = written[k]]_vars

\* C8: a getManifest call made at or after the expiry of the entry of its
\* key is not answered from the cache: its callback is enqueued under its
\* coalescing key, behind a request newly issued for it or already in flight.
C8_ExpiredReadIsMiss ==
    [][Len(calls') = Len(calls) + 1 =>
          LET cb == Len(calls')
              c == calls'[cb]
              k == CacheKeyOf(c)
              bk == BatchKey(c.user, c.repo, c.authToken)
          IN (k \in DOMAIN manifests /\ now >= manifests[k].expires)
             => /\ delivered'[cb] = <<>>
                /\ bk \in DOMAIN batches'
                /\ cb \in Range(batches'[bk])
                /\ IF bk \in DOMAIN batches
                   THEN requests' = requests
                   ELSE \E r \in requests' \ requests :
                            /\ r.id = cb
                            /\ requests' = requests \cup {r}
                            /\ TupleOf(r) = TupleOf(c)
                            /\ r.ref = OrNull(c.ref)]_vars

\* C8 witness: the last call found an entry of its key, expired, and issued
\* a request.
C8_RefetchAfterExpiry ==
    /\ Len(step) = 2
    /\ step[1].t = "call"
    /\ step[2].t = "request"
    /\ CacheKeyOf(step[1]) \in DOMAIN manifests
    /\ Lookup(step[1].user, step[1].repo, OrNull(step[1].ref)).expires <= now

\* The completion of a request: the request callback has run.
Completed == requests' # requests /\ Len(step') >= 1 /\ step'[1].t = "response"

\* The request a completion answers, and the callbacks waiting for it.
Answered == CHOOSE r \in requests : r \notin requests'
Waiting == BatchCallbacks(Answered.batchKey)

\* C9: a transport failure hands the same error to every callback enqueued
\* under the key, leaves the cache as it was and emits no event.
C9_TransportFailure ==
    [][(Completed /\ step'[1].er # Null) =>
          /\ manifests' = manifests
          /\ heap' = heap
          /\ emitted' = emitted
          /\ Answered.batchKey \notin DOMAIN batches'
          /\ step' = <<step'[1]>> \o
                 [i \in 1..Len(Waiting) |->
                     DeliverEntry(Waiting[i], step'[1].er, 0, Undefined, "batch")]
          /\ \A c \in 1..Len(calls) :
                 delivered'[c] =
                     IF c \in Range(Waiting)
                     THEN Append(delivered[c],
                                 DeliverEntry(c, step'[1].er, 0, Undefined, "batch"))
                     ELSE delivered[c]]_vars

\* C9 witness: a transport error has been handed to two callers.
C9_ErrorToTwoCallers ==
    /\ Len(step) = 3
    /\ step[1].t = "response"
    /\ step[1].er # Null
    /\ step[2].t = "deliver" /\ step[3].t = "deliver"
    /\ step[2].cb # step[3].cb
    /\ step[2].er = step[1].er /\ step[3].er = step[1].er

\* C10: a response whose body does not parse hands a parse error, and no
\* data, to every callback enqueued under the key, and leaves the cache as
\* it was.
C10_UnparsableBody ==
    [][(Completed /\ step'[1].er = Null /\ JSONParse(step'[1].body) = SyntaxError) =>
          /\ manifests' = manifests
          /\ heap' = heap
          /\ emitted' = emitted
          /\ Answered.batchKey \notin DOMAIN batches'
          /\ \A c \in 1..Len(calls) :
                 delivered'[c] =
                     IF c \in Range(Waiting)
                     THEN Append(delivered[c],
                                 DeliverEntry(c, Err("Failed to parse package.json: "
                                                     \o step'[1].body),
                                              0, Undefined, "batch"))
                     ELSE delivered[c]]_vars

\* C10 witness: an unparsable body has been answered while the cache holds
\* an entry of the requested key, and the parse error went to the caller.
C10_ParseErrorKeepsCache ==
    /\ Len(step) >= 2
    /\ step[1].t = "response"
    /\ step[1].er = Null
    /\ JSONParse(step[1].body) = SyntaxError
    /\ step[2].t = "deliver"
    /\ step[2].er.t = "error"
    /\ CacheKeyOf(calls[step[1].id]) \in DOMAIN manifests

\* A completion that stored: its trace is response, store, ...
Succeeded == Completed /\ Len(step') >= 2 /\ step'[2].t = "store"

\* The events in a handler's trace, in order.
EmitsOf(trace) == SelectSeq(trace, LAMBDA e : e.t = "emit")

\* The deliveries in a handler's trace, in order.
DeliversOf(trace) == SelectSeq(trace, LAMBDA e : e.t = "deliver")

\* C11: the successful completion that populates a key (user, repo, ref)
\* for the first time emits exactly one retrieve event and no change event.
C11_FirstStoreEmitsRetrieve ==
    [][(Succeeded /\ step'[2].key \notin DOMAIN manifests) =>
          /\ Len(EmitsOf(step')) = 1
          /\ EmitsOf(step')[1].name = "retrieve"
          /\ EmitsOf(step')[1].obj = step'[2].obj
          /\ emitted' = Append(emitted, EmitsOf(step')[1])]_vars

\* C11 witness: the first store of the behaviour has just been made, and
\* the one event emitted so far is its retrieve.
C11_FirstRetrieve ==
    /\ Len(step) >= 3
    /\ step[1].t = "response"
    /\ step[2].t = "store"
    /\ Len(heap) = 1
    /\ DOMAIN manifests = {step[2].key}
    /\ Len(emitted) = 1
    /\ emitted[1].name = "retrieve"
    /\ step[Len(step)] = emitted[1]

\* The cache key of the manifest an event carries.
KeyOfEvent(e) == <<e.user, e.repo, ToPropertyKey(heap[e.obj].ref)>>

\* C12: retrieve is emitted at most once per key (user, repo, ref), by the
\* completion that populates the key; a completion that stores over a
\* populated key emits none, whatever the credentials of the calls.
C12_RetrieveOncePerKey ==
    \A i, j \in 1..Len(emitted) :
        (/\ emitted[i].name = "retrieve"
         /\ emitted[j].name = "retrieve"
         /\ KeyOfEvent(emitted[i]) = KeyOfEvent(emitted[j])) => i = j

\* The name-to-range mapping of a section; a missing section is empty.
SectionMap(section) == IF section.t = "object" THEN section.v ELSE {}

\* How many events of one name a handler's trace holds.
EmitCount(trace, name) ==
    Len(SelectSeq(trace, LAMBDA e : e.t = "emit" /\ e.name = name))

\* C13: when a successful completion replaces the entry of a key, then for
\* each of the four sections on its own, its change event is emitted once
\* if the section's mapping differs between the replaced manifest and the
\* new one, and not at all if the mappings are equal.
C13_ChangeEventPerSection ==
    [][(Succeeded /\ step'[2].key \in DOMAIN manifests) =>
          LET old == heap[manifests[step'[2].key].data]
              new == step'[2].val
              Expected(a, b) == IF SectionMap(a) # SectionMap(b) THEN 1 ELSE 0
          IN /\ EmitCount(step', "dependenciesChange")
                    = Expected(old.dependencies, new.dependencies)
             /\ EmitCount(step', "devDependenciesChange")
                    = Expected(old.devDependencies, new.devDependencies)
             /\ EmitCount(step', "peerDependenciesChange")
                    = Expected(old.peerDependencies, new.peerDependencies)
             /\ EmitCount(step', "optionalDependenciesChange")
                    = Expected(old.optionalDependencies,
                               new.optionalDependencies)]_vars

\* C14: an entry's expiry is the time of its write plus the TTL in effect
\* at that write and does not change while the entry stays; a
\* setCacheDuration call changes no entry and nothing else of the cache,
\* and counts for the entries written after it.
C14_ExpirySetAtWrite ==
    [][/\ \A k \in DOMAIN manifests : k \in DOMAIN manifests'
       /\ \A k \in DOMAIN manifests' :
              IF Succeeded /\ step'[2].key = k
              THEN /\ manifests'[k].expires = now + TTL
                   /\ step'[2].expires = now + TTL
              ELSE /\ k \in DOMAIN manifests
                   /\ manifests'[k] = manifests[k]
       /\ TTL' # TTL =>
              /\ manifests' = manifests
              /\ heap' = heap
              /\ batches' = batches
              /\ requests' = requests
              /\ delivered' = delivered
              /\ emitted' = emitted]_vars

\* C14 witness: an entry written under the initial TTL keeps its expiry
\* after setCacheDuration, and the entry just written has the new lifetime.
C14_OldExpiryKept ==
    /\ TTL # DefaultTTL
    /\ Len(step) >= 2
    /\ step[2].t = "store"
    /\ manifests[step[2].key].expires = now + TTL
    /\ \E k \in DOMAIN manifests :
           /\ k # step[2].key
           /\ manifests[k].expires = DefaultTTL

\* A getManifest call has run.
Called == Len(calls') = Len(calls) + 1

\* C15: the absent ref is a cache key of its own: an entry stored by a call
\* without ref is not returned as a hit to, used as the previous version
\* for, or overwritten by a call with a literal ref, and the other way
\* round. The ref an entry was stored for is the ref of its data.
C15_AbsentRefIsOwnKey ==
    [][/\ Called =>
              LET cb == Len(calls')
                  ref == OrNull(calls'[cb].ref)
              IN /\ delivered'[cb] # <<>> => delivered'[cb][1].val.ref = ref
                 /\ \A r \in requests' \ requests :
                        Truthy(r.manifest) => heap[r.manifest.data].ref = ref
       /\ (Succeeded /\ step'[2].key \in DOMAIN manifests) =>
              heap[manifests[step'[2].key].data].ref = step'[2].val.ref]_vars

\* C16: calls whose tuples (user, repo, authToken) differ are independent:
\* a call that misses the cache waits behind a request of its own tuple,
\* issued by itself unless one is in flight, and a failure is handed only
\* to the callbacks of the failed request's tuple.
C16_TuplesIndependent ==
    [][/\ (Called /\ delivered'[Len(calls')] = <<>>) =>
              LET cb == Len(calls')
              IN \E r \in requests' :
                     /\ TupleOf(r) = TupleOf(calls'[cb])
                     /\ r.batchKey \in DOMAIN batches'
                     /\ cb \in Range(batches'[r.batchKey])
                     /\ r \notin requests => r.id = cb
       /\ (Completed /\ ~Succeeded) =>
              \A i \in 1..Len(DeliversOf(step')) :
                  TupleOf(calls[DeliversOf(step')[i].cb]) = TupleOf(Answered)]_vars

\* C17: a successful completion stores, then emits its events, then calls
\* back: in the run of a completion that stored, every event comes before
\* every callback invocation, and the store before both.
C17_EventsBeforeCallbacks ==
    (Len(step) >= 2 /\ step[2].t = "store") =>
        \A i, j \in 3..Len(step) :
            (step[i].t = "emit" /\ step[j].t = "deliver") => i < j

\* C18: the previous manifest a completion's events are computed against
\* is the entry its store replaces, the one in the cache under the key
\* just before the store; it is none only if the key was empty then.
C18_PreviousIsReplacedEntry ==
    [][Succeeded =>
          IF step'[2].key \in DOMAIN manifests
          THEN /\ Truthy(Answered.manifest)
               /\ Answered.manifest = manifests[step'[2].key]
               /\ EmitCount(step', "retrieve") = 0
          ELSE /\ ~Truthy(Answered.manifest)
               /\ EmitCount(step', "retrieve") = 1]_vars

====
